---- MODULE Spec2Model ----
(***************************************************************************)
(* Model of select_submatrix_smt_gradient.py: main(), a straight-line      *)
(* script over external collaborators (TrlParser, SMTTrainer,              *)
(* select_submatrix, FlopsProfiler, the file system), and the pure helper  *)
(* save_selected_submatrix.  Every external call either returns or raises; *)
(* an exception is never caught in this file, so it ends the run.          *)
(*                                                                         *)
(* Python dicts are insertion ordered: a dict is a sequence of <<key,      *)
(* value>> pairs with pairwise distinct keys.  A key is a record           *)
(* [t, i, s]: the int i when t = "int", the str s when t = "str".          *)
(***************************************************************************)
EXTENDS Integers, Sequences, FiniteSets, TLC

VARIABLES pc, training_args, trainers, flops_profiler, select_calls,
          selected_mlp_submatrix, selected_attention_submatrix, fs, trace,
          raised

vars == <<pc, training_args, trainers, flops_profiler, select_calls,
          selected_mlp_submatrix, selected_attention_submatrix, fs, trace,
          raised>>

(* ------------------------------ bounds --------------------------------- *)

\* most entries of a dict handed to save_selected_submatrix directly
MaxEntries == 2

\* most entries of a dict returned by select_submatrix inside main()
MaxSel == 1

\* largest trainer.state.global_step that train() leaves behind
MaxStep == 1

(* ------------------------------ inputs --------------------------------- *)

Ratios == {-1, 0, 1}

OutputDirs == {"out", "runs/smt"}

KeyInts == {0, 1}

IntKey(n) == [t |-> "int", i |-> n, s |-> ""]

StrKey(str) == [t |-> "str", i |-> 0, s |-> str]

Keys == {IntKey(n) : n \in KeyInts} \cup {StrKey(ToString(n)) : n \in KeyInts}

Vals == {10, 20}

DictKeys(d) == {d[x][1] : x \in DOMAIN d}

\* the dicts of at most n entries with keys in K and values in Vals
DictsOver(K, n) ==
    UNION {{d \in [1..m -> K \X Vals] :
              \A a, b \in 1..m : a # b => d[a][1] # d[b][1]} : m \in 0..n}

\* what a caller may hand to save_selected_submatrix: keys of any type
Dicts(n) == DictsOver(Keys, n)

\* what select_submatrix returns: block maps, all keys of one type
SelectResults == DictsOver({IntKey(n) : n \in KeyInts}, MaxSel)

TrainingArgs ==
    [downsample_mlp_blocks_ratio : Ratios,
     downsample_attention_blocks_ratio : Ratios,
     enable_analysis : BOOLEAN,
     output_dir : OutputDirs]

(* ------------------------- save_selected_submatrix --------------------- *)

\* str(k)
PyStr(k) == IF k.t = "int" THEN ToString(k.i) ELSE k.s

DictHas(d, k) == \E x \in DOMAIN d : d[x][1] = k

DictGet(d, k) == d[CHOOSE x \in DOMAIN d : d[x][1] = k][2]

\* d.setdefault(k, v): the first value of a key would win
DictSet_KeepFirst(d, k, v) ==
    IF DictHas(d, k) THEN d ELSE Append(d, <<k, v>>)

\* d[k] = v: an existing key keeps its position and takes the new value
DictSet(d, k, v) ==
    IF DictHas(d, k)
    THEN [x \in DOMAIN d |-> IF d[x][1] = k THEN <<k, v>> ELSE d[x]]
    ELSE Append(d, <<k, v>>)

RECURSIVE StrKeyedFrom(_, _, _)
StrKeyedFrom(items, n, acc) ==
    IF n > Len(items) THEN acc
    ELSE StrKeyedFrom(items, n + 1,
                      DictSet(acc, StrKey(PyStr(items[n][1])), items[n][2]))

\* {str(k): v for k, v in d.items()}
StrKeyed(d) == StrKeyedFrom(d, 1, <<>>)

\* `combined` with one entry per non-empty selection only
Combined_NonEmptyOnly(mlp, attention) ==
    (IF mlp = <<>> THEN <<>>
     ELSE << <<StrKey("selected_mlp_submatrix"), StrKeyed(mlp)>> >>)
    \o (IF attention = <<>> THEN <<>>
        ELSE << <<StrKey("selected_attention_submatrix"),
                  StrKeyed(attention)>> >>)

\* the dict `combined`
Combined(mlp, attention) ==
    << <<StrKey("selected_mlp_submatrix"), StrKeyed(mlp)>>,
       <<StrKey("selected_attention_submatrix"), StrKeyed(attention)>> >>

\* the object handed to json.dump
Dumped(mlp, attention) == StrKeyed(Combined(mlp, attention))

\* os.path.join(training_args.output_dir, 'selected_blocks.json')
SubmatrixFilePath(args) == <<args.output_dir, "selected_blocks.json">>

(* --------------------------------- main -------------------------------- *)

Call(op, arg) == [op |-> op, arg |-> arg]

\* main() with submatrix selection placed ahead of trainer.train()
Following_SelectBeforeTrain(p) ==
    CASE p = "parse_args" -> "load_tokenizer"
      [] p = "load_tokenizer" -> "initialize_model"
      [] p = "initialize_model" -> "prepare_datasets"
      [] p = "prepare_datasets" -> "start_profile"
      [] p = "start_profile" -> "make_trainer"
      [] p = "make_trainer" -> "select_mlp"
      [] p = "select_mlp" -> "select_attention"
      [] p = "select_attention" -> "train"
      [] p = "train" -> "save_open"
      [] p = "save_open" -> "save_dump"
      [] p = "save_dump" -> "stop_profile"
      [] p = "stop_profile" -> "log_metrics"
      [] p = "log_metrics" -> "done"

\* main() with stop_profile placed ahead of the save
Following_StopProfileEarly(p) ==
    CASE p = "parse_args" -> "load_tokenizer"
      [] p = "load_tokenizer" -> "initialize_model"
      [] p = "initialize_model" -> "prepare_datasets"
      [] p = "prepare_datasets" -> "start_profile"
      [] p = "start_profile" -> "make_trainer"
      [] p = "make_trainer" -> "train"
      [] p = "train" -> "select_mlp"
      [] p = "select_mlp" -> "select_attention"
      [] p = "select_attention" -> "stop_profile"
      [] p = "stop_profile" -> "save_open"
      [] p = "save_open" -> "save_dump"
      [] p = "save_dump" -> "log_metrics"
      [] p = "log_metrics" -> "done"

\* the statements of main() in program order
Following(p) ==
    CASE p = "parse_args" -> "load_tokenizer"
      [] p = "load_tokenizer" -> "initialize_model"
      [] p = "initialize_model" -> "prepare_datasets"
      [] p = "prepare_datasets" -> "start_profile"
      [] p = "start_profile" -> "make_trainer"
      [] p = "make_trainer" -> "train"
      [] p = "train" -> "select_mlp"
      [] p = "select_mlp" -> "select_attention"
      [] p = "select_attention" -> "save_open"
      [] p = "save_open" -> "save_dump"
      [] p = "save_dump" -> "stop_profile"
      [] p = "stop_profile" -> "log_metrics"
      [] p = "log_metrics" -> "done"

\* main() with training and selection wrapped in try/except: pass
Propagate_Swallowed(p) ==
    IF p \in {"train", "select_mlp", "select_attention"}
    THEN Following(p) ELSE "raised"

\* main() has no try/except: an exception raised at p ends the run
Propagate(p) == "raised"

\* the trainer constructed in the mode that trains the selected blocks
TrainerMode_Training == "TrainingMode"

\* the mode the trainer is constructed in
TrainerMode == "SelectSubmatrixMode"

\* if training_args.downsample_mlp_blocks_ratio > 0
MlpEnabled_Positive(args) == args.downsample_mlp_blocks_ratio > 0

\* if training_args.downsample_mlp_blocks_ratio >= 0
MlpEnabled(args) == args.downsample_mlp_blocks_ratio >= 0

\* if training_args.downsample_attention_blocks_ratio >= 0
AttentionEnabled(args) == args.downsample_attention_blocks_ratio >= 0

\* the arguments of the first select_submatrix call
MlpSelectArgs(args, trainer) ==
    [model |-> "model", grads |-> "warmup_mlp_grads",
     global_step |-> trainer.global_step,
     enable_analysis |-> args.enable_analysis,
     output_dir |-> args.output_dir,
     ratio |-> args.downsample_mlp_blocks_ratio,
     module_type |-> "MLP"]

\* the second call handed the MLP gradients
AttentionSelectArgs_MlpGrads(args, trainer) ==
    [model |-> "model", grads |-> "warmup_mlp_grads",
     global_step |-> trainer.global_step,
     enable_analysis |-> args.enable_analysis,
     output_dir |-> args.output_dir,
     ratio |-> args.downsample_attention_blocks_ratio,
     module_type |-> "ATTENTION"]

\* the arguments of the second select_submatrix call
AttentionSelectArgs(args, trainer) ==
    [model |-> "model", grads |-> "warmup_attention_grads",
     global_step |-> trainer.global_step,
     enable_analysis |-> args.enable_analysis,
     output_dir |-> args.output_dir,
     ratio |-> args.downsample_attention_blocks_ratio,
     module_type |-> "ATTENTION"]

\* the process starts with no object built; training_args holds what
\* parse_args_and_config will return for this run's command line
Init ==
    /\ pc = "parse_args"
    /\ training_args \in TrainingArgs
    /\ trainers = <<>>
    /\ flops_profiler = [start_calls |-> 0, stop_calls |-> 0, started |-> FALSE]
    /\ select_calls = <<>>
    /\ selected_mlp_submatrix = <<>>
    /\ selected_attention_submatrix = <<>>
    /\ fs = <<>>
    /\ trace = <<>>
    /\ raised = ""

\* the callee of the setup statement at position p
OpAt(p) ==
    CASE p = "parse_args" -> "parse_args_and_config"
      [] p = "load_tokenizer" -> "load_and_configure_tokenizer"
      [] p = "initialize_model" -> "initialize_model"
      [] p = "prepare_datasets" -> "prepare_datasets"

\* an external call made at position pc returns
Returns(op, arg) ==
    /\ trace' = Append(trace, Call(op, arg))
    /\ pc' = Following(pc)
    /\ raised' = raised

\* an external call made at position pc raises
Raises(op, arg) ==
    /\ trace' = Append(trace, Call(op, arg))
    /\ pc' = Propagate(pc)
    /\ raised' = pc

ParseArgs ==
    /\ pc = "parse_args"
    /\ Returns(OpAt(pc), "-")
    /\ UNCHANGED <<training_args, trainers, flops_profiler, select_calls,
                   selected_mlp_submatrix, selected_attention_submatrix, fs>>

LoadTokenizer ==
    /\ pc = "load_tokenizer"
    /\ Returns(OpAt(pc), "-")
    /\ UNCHANGED <<training_args, trainers, flops_profiler, select_calls,
                   selected_mlp_submatrix, selected_attention_submatrix, fs>>

InitializeModel ==
    /\ pc = "initialize_model"
    /\ Returns(OpAt(pc), "-")
    /\ UNCHANGED <<training_args, trainers, flops_profiler, select_calls,
                   selected_mlp_submatrix, selected_attention_submatrix, fs>>

PrepareDatasets ==
    /\ pc = "prepare_datasets"
    /\ Returns(OpAt(pc), "-")
    /\ UNCHANGED <<training_args, trainers, flops_profiler, select_calls,
                   selected_mlp_submatrix, selected_attention_submatrix, fs>>

\* parsing or building the tokenizer, the model or the datasets raises
SetupRaises ==
    /\ pc \in {"parse_args", "load_tokenizer", "initialize_model",
               "prepare_datasets"}
    /\ Raises(OpAt(pc), "-")
    /\ UNCHANGED <<training_args, trainers, flops_profiler, select_calls,
                   selected_mlp_submatrix, selected_attention_submatrix, fs>>

\* flops_profiler = FlopsProfiler(model); flops_profiler.start_profile()
StartProfile ==
    /\ pc = "start_profile"
    /\ flops_profiler' = [flops_profiler EXCEPT !.start_calls = @ + 1,
                                                !.started = TRUE]
    /\ Returns("start_profile", "-")
    /\ UNCHANGED <<training_args, trainers, select_calls,
                   selected_mlp_submatrix, selected_attention_submatrix, fs>>

\* start_profile raises, leaving the profiler started or not
StartProfileRaises ==
    /\ pc = "start_profile"
    /\ \E st \in BOOLEAN :
         flops_profiler' = [flops_profiler EXCEPT !.start_calls = @ + 1,
                                                  !.started = st]
    /\ Raises("start_profile", "-")
    /\ UNCHANGED <<training_args, trainers, select_calls,
                   selected_mlp_submatrix, selected_attention_submatrix, fs>>

\* trainer = SMTTrainer(..., mode=SMTTrainerMode.SelectSubmatrixMode, ...)
MakeTrainer ==
    /\ pc = "make_trainer"
    /\ trainers' = Append(trainers, [mode |-> TrainerMode, train_calls |-> 0,
                                     trained |-> FALSE, global_step |-> 0])
    /\ Returns("SMTTrainer", TrainerMode)
    /\ UNCHANGED <<training_args, flops_profiler, select_calls,
                   selected_mlp_submatrix, selected_attention_submatrix, fs>>

MakeTrainerRaises ==
    /\ pc = "make_trainer"
    /\ Raises("SMTTrainer", TrainerMode)
    /\ UNCHANGED <<training_args, trainers, flops_profiler, select_calls,
                   selected_mlp_submatrix, selected_attention_submatrix, fs>>

\* trainer.train() returns after some number of optimizer steps
Train ==
    /\ pc = "train"
    /\ \E n \in 0..MaxStep :
         trainers' = [trainers EXCEPT ![1].train_calls = @ + 1,
                                      ![1].trained = TRUE,
                                      ![1].global_step = n]
    /\ Returns("train", "-")
    /\ UNCHANGED <<training_args, flops_profiler, select_calls,
                   selected_mlp_submatrix, selected_attention_submatrix, fs>>

\* trainer.train() raises after some number of optimizer steps
TrainRaises ==
    /\ pc = "train"
    /\ \E n \in 0..MaxStep :
         trainers' = [trainers EXCEPT ![1].train_calls = @ + 1,
                                      ![1].global_step = n]
    /\ Raises("train", "-")
    /\ UNCHANGED <<training_args, flops_profiler, select_calls,
                   selected_mlp_submatrix, selected_attention_submatrix, fs>>

\* selected_mlp_submatrix = {}; the MLP ratio is negative
SkipMlp ==
    /\ pc = "select_mlp"
    /\ ~MlpEnabled(training_args)
    /\ selected_mlp_submatrix' = <<>>
    /\ pc' = Following(pc)
    /\ UNCHANGED <<training_args, trainers, flops_profiler, select_calls,
                   selected_attention_submatrix, fs, trace, raised>>

\* selected_mlp_submatrix = select_submatrix(..., ModuleType.MLP)
SelectMlp ==
    /\ pc = "select_mlp"
    /\ MlpEnabled(training_args)
    /\ \E d \in SelectResults :
         /\ select_calls' = Append(select_calls,
                [args |-> MlpSelectArgs(training_args, trainers[1]),
                 returned |-> TRUE, result |-> d])
         /\ selected_mlp_submatrix' = d
    /\ Returns("select_submatrix",
               MlpSelectArgs(training_args, trainers[1]).module_type)
    /\ UNCHANGED <<training_args, trainers, flops_profiler,
                   selected_attention_submatrix, fs>>

\* the MLP select_submatrix call raises; the local keeps its {}
SelectMlpRaises ==
    /\ pc = "select_mlp"
    /\ MlpEnabled(training_args)
    /\ select_calls' = Append(select_calls,
                [args |-> MlpSelectArgs(training_args, trainers[1]),
                 returned |-> FALSE, result |-> <<>>])
    /\ selected_mlp_submatrix' = <<>>
    /\ Raises("select_submatrix",
              MlpSelectArgs(training_args, trainers[1]).module_type)
    /\ UNCHANGED <<training_args, trainers, flops_profiler,
                   selected_attention_submatrix, fs>>

\* selected_attention_submatrix = {}; the attention ratio is negative
SkipAttention ==
    /\ pc = "select_attention"
    /\ ~AttentionEnabled(training_args)
    /\ selected_attention_submatrix' = <<>>
    /\ pc' = Following(pc)
    /\ UNCHANGED <<training_args, trainers, flops_profiler, select_calls,
                   selected_mlp_submatrix, fs, trace, raised>>

\* selected_attention_submatrix = select_submatrix(..., ModuleType.ATTENTION)
SelectAttention ==
    /\ pc = "select_attention"
    /\ AttentionEnabled(training_args)
    /\ \E d \in SelectResults :
         /\ select_calls' = Append(select_calls,
                [args |-> AttentionSelectArgs(training_args, trainers[1]),
                 returned |-> TRUE, result |-> d])
         /\ selected_attention_submatrix' = d
    /\ Returns("select_submatrix",
               AttentionSelectArgs(training_args, trainers[1]).module_type)
    /\ UNCHANGED <<training_args, trainers, flops_profiler,
                   selected_mlp_submatrix, fs>>

\* the attention select_submatrix call raises; the local keeps its {}
SelectAttentionRaises ==
    /\ pc = "select_attention"
    /\ AttentionEnabled(training_args)
    /\ select_calls' = Append(select_calls,
                [args |-> AttentionSelectArgs(training_args, trainers[1]),
                 returned |-> FALSE, result |-> <<>>])
    /\ selected_attention_submatrix' = <<>>
    /\ Raises("select_submatrix",
              AttentionSelectArgs(training_args, trainers[1]).module_type)
    /\ UNCHANGED <<training_args, trainers, flops_profiler,
                   selected_mlp_submatrix, fs>>

\* save_selected_submatrix is entered, `combined` is built and
\* open(submatrix_file_path, "w") creates or truncates the file
SaveOpen ==
    /\ pc = "save_open"
    /\ fs' = (SubmatrixFilePath(training_args) :>
                [complete |-> FALSE, json |-> <<>>]) @@ fs
    /\ Returns("save_selected_submatrix", "-")
    /\ UNCHANGED <<training_args, trainers, flops_profiler, select_calls,
                   selected_mlp_submatrix, selected_attention_submatrix>>

\* open() raises: no file is created
SaveOpenRaises ==
    /\ pc = "save_open"
    /\ Raises("save_selected_submatrix", "-")
    /\ UNCHANGED <<training_args, trainers, flops_profiler, select_calls,
                   selected_mlp_submatrix, selected_attention_submatrix, fs>>

\* json.dump writes the whole object and the file is closed
SaveDump ==
    /\ pc = "save_dump"
    /\ fs' = [fs EXCEPT ![SubmatrixFilePath(training_args)] =
                [complete |-> TRUE,
                 json |-> Dumped(selected_mlp_submatrix,
                                 selected_attention_submatrix)]]
    /\ pc' = Following(pc)
    /\ UNCHANGED <<training_args, trainers, flops_profiler, select_calls,
                   selected_mlp_submatrix, selected_attention_submatrix,
                   trace, raised>>

\* json.dump raises part-way: the file stays truncated or half-written
SaveDumpRaises ==
    /\ pc = "save_dump"
    /\ pc' = Propagate(pc)
    /\ raised' = pc
    /\ UNCHANGED <<training_args, trainers, flops_profiler, select_calls,
                   selected_mlp_submatrix, selected_attention_submatrix,
                   fs, trace>>

\* flops_profiler.stop_profile()
StopProfile ==
    /\ pc = "stop_profile"
    /\ flops_profiler' = [flops_profiler EXCEPT !.stop_calls = @ + 1,
                                                !.started = FALSE]
    /\ Returns("stop_profile", "-")
    /\ UNCHANGED <<training_args, trainers, select_calls,
                   selected_mlp_submatrix, selected_attention_submatrix, fs>>

\* log_training_metrics(trainer.state, trainer.sum_training_step_time, ...)
LogTrainingMetrics ==
    /\ pc = "log_metrics"
    /\ Returns("log_training_metrics", "-")
    /\ UNCHANGED <<training_args, trainers, flops_profiler, select_calls,
                   selected_mlp_submatrix, selected_attention_submatrix, fs>>

\* stop_profile or log_training_metrics raises
TeardownRaises ==
    /\ pc \in {"stop_profile", "log_metrics"}
    /\ flops_profiler' =
         IF pc = "stop_profile"
         THEN [flops_profiler EXCEPT !.stop_calls = @ + 1]
         ELSE flops_profiler
    /\ Raises(IF pc = "stop_profile" THEN "stop_profile"
              ELSE "log_training_metrics", "-")
    /\ UNCHANGED <<training_args, trainers, select_calls,
                   selected_mlp_submatrix, selected_attention_submatrix, fs>>

Next ==
    \/ ParseArgs
    \/ LoadTokenizer
    \/ InitializeModel
    \/ PrepareDatasets
    \/ SetupRaises
    \/ StartProfile
    \/ StartProfileRaises
    \/ MakeTrainer
    \/ MakeTrainerRaises
    \/ Train
    \/ TrainRaises
    \/ SkipMlp
    \/ SelectMlp
    \/ SelectMlpRaises
    \/ SkipAttention
    \/ SelectAttention
    \/ SelectAttentionRaises
    \/ SaveOpen
    \/ SaveOpenRaises
    \/ SaveDump
    \/ SaveDumpRaises
    \/ StopProfile
    \/ LogTrainingMetrics
    \/ TeardownRaises

Spec == Init /\ [][Next]_vars

\* save_selected_submatrix called on its own, with any two dicts
InitSave ==
    /\ pc = "save_open"
    /\ training_args \in {a \in TrainingArgs :
                            /\ a.downsample_mlp_blocks_ratio = 0
                            /\ a.downsample_attention_blocks_ratio = 0
                            /\ a.enable_analysis = FALSE
                            /\ a.output_dir = "out"}
    /\ trainers = <<>>
    /\ flops_profiler = [start_calls |-> 0, stop_calls |-> 0, started |-> FALSE]
    /\ select_calls = <<>>
    /\ selected_mlp_submatrix \in Dicts(MaxEntries)
    /\ selected_attention_submatrix \in Dicts(MaxEntries)
    /\ fs = <<>>
    /\ trace = <<>>
    /\ raised = ""

NextSave ==
    \/ SaveOpen
    \/ SaveOpenRaises
    \/ SaveDump
    \/ SaveDumpRaises

SpecSave == InitSave /\ [][NextSave]_vars

(* ------------------------------ properties ----------------------------- *)

\* the statement the run is at, or the one it died in
Cur == IF pc = "raised" THEN raised ELSE pc

\* statement p was executed and returned normally
Past(p) ==
    CASE p = "train" ->
           Cur \in {"select_mlp", "select_attention", "save_open",
                    "save_dump", "stop_profile", "log_metrics", "done"}
      [] p = "select_mlp" ->
           Cur \in {"select_attention", "save_open", "save_dump",
                    "stop_profile", "log_metrics", "done"}
      [] p = "select_attention" ->
           Cur \in {"save_open", "save_dump", "stop_profile", "log_metrics",
                    "done"}

Calls(op) == {i \in DOMAIN trace : trace[i].op = op}

SelectCallsOf(mt) ==
    {i \in DOMAIN select_calls : select_calls[i].args.module_type = mt}

MlpJsonKey == StrKey("selected_mlp_submatrix")

AttentionJsonKey == StrKey("selected_attention_submatrix")

BlocksPath == <<training_args.output_dir, "selected_blocks.json">>

FileTouched == BlocksPath \in DOMAIN fs

FileComplete == FileTouched /\ fs[BlocksPath].complete

Json == fs[BlocksPath].json

Stage(c) ==
    CASE c.op = "parse_args_and_config" -> 1
      [] c.op \in {"load_and_configure_tokenizer", "initialize_model",
                   "prepare_datasets"} -> 2
      [] c.op = "SMTTrainer" -> 3
      [] c.op = "train" -> 4
      [] c.op = "select_submatrix" -> 5
      [] c.op = "save_selected_submatrix" -> 6
      [] OTHER -> 0

Staged(c) == Stage(c) > 0

IsSetup(c) == Stage(c) = 2

\* C1: the calls of main() happen in the order argument parsing, tokenizer /
\* model / dataset construction, trainer construction, trainer.train(),
\* select_submatrix, save_selected_submatrix, none of the first four being
\* skipped; select_submatrix is called only once train() has returned, and
\* save_selected_submatrix only once the selection is over.
C1_StepOrder ==
    LET steps == SelectSeq(trace, Staged)
        setup == SelectSeq(trace, IsSetup)
    IN
    /\ steps # <<>> => Stage(steps[1]) = 1
    /\ \A i \in 1..(Len(steps) - 1) :
         /\ Stage(steps[i]) <= Stage(steps[i + 1])
         /\ \/ Stage(steps[i + 1]) <= Stage(steps[i]) + 1
            \/ Stage(steps[i]) = 4 /\ Stage(steps[i + 1]) = 6
         /\ Stage(steps[i + 1]) > 2 =>
              {setup[x].op : x \in DOMAIN setup} =
                 {"load_and_configure_tokenizer", "initialize_model",
                  "prepare_datasets"}
    /\ Calls("select_submatrix") # {} =>
         (trainers # <<>> /\ trainers[1].trained)
    /\ Calls("save_selected_submatrix") # {} =>
         /\ Past("select_attention")
         /\ \A i \in DOMAIN select_calls : select_calls[i].returned

C1_Witness ==
    /\ pc = "done"
    /\ Len(select_calls) = 2
    /\ Calls("save_selected_submatrix") # {}

MlpDecided == Past("select_mlp") \/ (pc = "raised" /\ raised = "select_mlp")

AttentionDecided ==
    Past("select_attention") \/ (pc = "raised" /\ raised = "select_attention")

\* C3: once the run has passed the branch of a module type, select_submatrix
\* has been invoked for that type if and only if that type's own ratio is
\* >= 0 (0 included); a type with a negative ratio is serialized as the
\* empty map.
C3_InvokedIffRatioNonNegative ==
    /\ (SelectCallsOf("MLP") # {}) <=>
         (MlpDecided /\ training_args.downsample_mlp_blocks_ratio >= 0)
    /\ (SelectCallsOf("ATTENTION") # {}) <=>
         (AttentionDecided
            /\ training_args.downsample_attention_blocks_ratio >= 0)
    /\ Cardinality(SelectCallsOf("MLP")) <= 1
    /\ Cardinality(SelectCallsOf("ATTENTION")) <= 1
    /\ (FileComplete /\ training_args.downsample_mlp_blocks_ratio < 0)
          => DictGet(Json, MlpJsonKey) = <<>>
    /\ (FileComplete /\ training_args.downsample_attention_blocks_ratio < 0)
          => DictGet(Json, AttentionJsonKey) = <<>>

C3_Witness ==
    /\ pc = "done"
    /\ training_args.downsample_mlp_blocks_ratio = 0
    /\ SelectCallsOf("MLP") # {}
    /\ training_args.downsample_attention_blocks_ratio < 0
    /\ SelectCallsOf("ATTENTION") = {}
    /\ DictGet(Json, AttentionJsonKey) = <<>>

\* C4: each select_submatrix call gets the gradients and the ratio of its
\* own module type, and the same model, global_step of the trained trainer,
\* enable_analysis and output_dir as the other; the result of the MLP call
\* is what is serialized under selected_mlp_submatrix and the result of the
\* attention call under selected_attention_submatrix.
C4_MatchingInputs ==
    /\ \A i \in DOMAIN select_calls :
         LET a == select_calls[i].args IN
           /\ a.module_type \in {"MLP", "ATTENTION"}
           /\ a.module_type = "MLP" =>
                /\ a.grads = "warmup_mlp_grads"
                /\ a.ratio = training_args.downsample_mlp_blocks_ratio
           /\ a.module_type = "ATTENTION" =>
                /\ a.grads = "warmup_attention_grads"
                /\ a.ratio = training_args.downsample_attention_blocks_ratio
           /\ a.model = "model"
           /\ trainers[1].trained
           /\ a.global_step = trainers[1].global_step
           /\ a.enable_analysis = training_args.enable_analysis
           /\ a.output_dir = training_args.output_dir
    /\ FileComplete =>
         /\ \A i \in SelectCallsOf("MLP") :
              DictGet(Json, MlpJsonKey) = StrKeyed(select_calls[i].result)
         /\ \A i \in SelectCallsOf("ATTENTION") :
              DictGet(Json, AttentionJsonKey) =
                 StrKeyed(select_calls[i].result)

C4_Witness ==
    /\ pc = "done"
    /\ Len(select_calls) = 2
    /\ select_calls[1].result # <<>>
    /\ select_calls[2].result # <<>>
    /\ select_calls[1].result # select_calls[2].result
    /\ select_calls[1].args.ratio # select_calls[2].args.ratio
    /\ FileComplete

StrForms(d) == {PyStr(k) : k \in DictKeys(d)}

\* every key survives under its string form with its own value
Lossless(d, out) ==
    /\ \A k \in DictKeys(d) :
         /\ DictHas(out, StrKey(PyStr(k)))
         /\ DictGet(out, StrKey(PyStr(k))) = DictGet(d, k)
    /\ DictKeys(out) = {StrKey(str) : str \in StrForms(d)}
    /\ Len(out) = Len(d)

\* one entry per string form, holding the value of the last key of that form
LastOfEachForm(d, out) ==
    /\ DictKeys(out) = {StrKey(str) : str \in StrForms(d)}
    /\ Len(out) = Cardinality(StrForms(d))
    /\ \A x \in DOMAIN d :
         (\A y \in DOMAIN d : y > x => PyStr(d[y][1]) # PyStr(d[x][1]))
            => DictGet(out, StrKey(PyStr(d[x][1]))) = d[x][2]
    /\ Cardinality(StrForms(d)) = Len(d) => Lossless(d, out)

\* C5 as stated: the saved maps keep every input key under str(k) with its
\* value and have as many entries as the inputs, for every input map.
C5_Original ==
    FileComplete =>
       /\ Lossless(selected_mlp_submatrix, DictGet(Json, MlpJsonKey))
       /\ Lossless(selected_attention_submatrix,
                   DictGet(Json, AttentionJsonKey))

\* C5 amended: each saved map has exactly the keys str(k), one entry per
\* distinct string form, holding the value of the last input key (in
\* iteration order) of that form; it is lossless, with as many entries as
\* the input, whenever the input keys have pairwise distinct string forms.
C5_LastOfEachStringForm ==
    FileComplete =>
       /\ LastOfEachForm(selected_mlp_submatrix, DictGet(Json, MlpJsonKey))
       /\ LastOfEachForm(selected_attention_submatrix,
                         DictGet(Json, AttentionJsonKey))

C5_Witness ==
    /\ FileComplete
    /\ \E x, y \in DOMAIN selected_mlp_submatrix :
         /\ x < y
         /\ PyStr(selected_mlp_submatrix[x][1]) =
               PyStr(selected_mlp_submatrix[y][1])
         /\ selected_mlp_submatrix[x][2] # selected_mlp_submatrix[y][2]
         /\ DictGet(DictGet(Json, MlpJsonKey),
                    StrKey(PyStr(selected_mlp_submatrix[y][1]))) =
               selected_mlp_submatrix[y][2]
    /\ Len(selected_attention_submatrix) = 2
    /\ Len(DictGet(Json, AttentionJsonKey)) = 2

\* C6: at most one trainer is ever constructed, always in
\* SelectSubmatrixMode; train() is called at most once, exactly once in a
\* run that got past training, and never after a select_submatrix call.
C6_OneTrainerOneTrainCall ==
    /\ Len(trainers) <= 1
    /\ Cardinality(Calls("SMTTrainer")) <= 1
    /\ \A i \in DOMAIN trainers : trainers[i].mode = "SelectSubmatrixMode"
    /\ \A i \in Calls("SMTTrainer") : trace[i].arg = "SelectSubmatrixMode"
    /\ \A i \in DOMAIN trainers : trainers[i].train_calls <= 1
    /\ Cardinality(Calls("train")) <= 1
    /\ Past("train") =>
         /\ Len(trainers) = 1
         /\ trainers[1].train_calls = 1
         /\ Cardinality(Calls("train")) = 1
    /\ \A i \in Calls("select_submatrix") : \A j \in Calls("train") : j < i

C6_Witness ==
    /\ pc = "done"
    /\ Len(trainers) = 1
    /\ trainers[1].train_calls = 1
    /\ Calls("select_submatrix") # {}

\* C7: if train() raised, select_submatrix was never called and the file is
\* untouched; if the MLP selection raised, the attention selection was never
\* called and the file is untouched; if the attention selection raised, the
\* file is untouched; the file is touched only in runs where training and
\* every enabled selection returned normally.
C7_NoPartialResult ==
    /\ (\E i \in Calls("train") : ~trainers[1].trained) =>
         (select_calls = <<>> /\ fs = <<>>
            /\ Calls("save_selected_submatrix") = {})
    /\ (\E i \in SelectCallsOf("MLP") : ~select_calls[i].returned) =>
         (SelectCallsOf("ATTENTION") = {} /\ fs = <<>>
            /\ Calls("save_selected_submatrix") = {})
    /\ (\E i \in SelectCallsOf("ATTENTION") : ~select_calls[i].returned) =>
         (fs = <<>> /\ Calls("save_selected_submatrix") = {})
    /\ (fs # <<>> \/ Calls("save_selected_submatrix") # {}) =>
         /\ trainers # <<>> /\ trainers[1].trained
         /\ \A i \in DOMAIN select_calls : select_calls[i].returned
         /\ training_args.downsample_mlp_blocks_ratio >= 0
               => SelectCallsOf("MLP") # {}
         /\ training_args.downsample_attention_blocks_ratio >= 0
               => SelectCallsOf("ATTENTION") # {}

C7_Witness ==
    /\ pc = "raised"
    /\ raised = "select_attention"
    /\ \E i \in SelectCallsOf("MLP") :
         select_calls[i].returned /\ select_calls[i].result # <<>>
    /\ \E i \in SelectCallsOf("ATTENTION") : ~select_calls[i].returned
    /\ fs = <<>>

\* C8: start_profile is called at most once, and exactly once before the
\* trainer is constructed and trained; stop_profile is called at most once
\* and only after the file was saved; log_training_metrics only after
\* stop_profile; a run that died in training, selection or the save has
\* called neither and leaves the profiler started.
C8_ProfilerBrackets ==
    /\ flops_profiler.start_calls <= 1
    /\ Cardinality(Calls("start_profile")) = flops_profiler.start_calls
    /\ \A j \in Calls("SMTTrainer") \cup Calls("train") :
         \E i \in Calls("start_profile") : i < j
    /\ flops_profiler.stop_calls <= 1
    /\ Cardinality(Calls("stop_profile")) = flops_profiler.stop_calls
    /\ Calls("stop_profile") # {} =>
         /\ FileComplete
         /\ \E i \in Calls("save_selected_submatrix") :
              \A j \in Calls("stop_profile") : i < j
    /\ \A j \in Calls("log_training_metrics") :
         \E i \in Calls("stop_profile") : i < j
    /\ (pc = "raised" /\ raised \in {"train", "select_mlp",
                                      "select_attention", "save_open",
                                      "save_dump"}) =>
         /\ flops_profiler.stop_calls = 0
         /\ Calls("stop_profile") = {}
         /\ Calls("log_training_metrics") = {}
         /\ flops_profiler.started

C8_Witness ==
    /\ pc = "raised"
    /\ raised = "save_dump"
    /\ flops_profiler.started
    /\ flops_profiler.start_calls = 1
    /\ flops_profiler.stop_calls = 0

====
